---- MODULE Spec2Model ----
(***************************************************************************)
(* Relay server (src/main.go): an SQLite table of ephemeral shares, three  *)
(* HTTP handlers on it, a periodic cleanup goroutine and a per-RemoteAddr  *)
(* token-bucket rate limiter in front of every route.                      *)
(*                                                                         *)
(* Time is counted in whole minutes since process start.  Timestamps are   *)
(* integers; the two SQL comparisons against datetime('now') are modelled  *)
(* as the integer comparisons the statements spell (< and >).              *)
(* The store's clock (datetime('now')) and the process's clock (time.Now()) *)
(* are kept apart; they differ by the constant skew, 0 unless stated.      *)
(***************************************************************************)
EXTENDS Integers, Sequences, FiniteSets, TLC

\* ---------------------------------------------------------------- constants
\* rate.NewLimiter(rate.Every(time.Minute), 10): burst and refill per minute
Burst == 10
TokensPerMinute == 1
\* var expiresMinutes = 10
expiresMinutes == 10

StatusOK == 200
StatusCreated == 201
StatusBadRequest == 400
StatusNotFound == 404
StatusConflict == 409
StatusTooManyRequests == 429
StatusInternalServerError == 500

\* ------------------------------------------------------------------- bounds
\* last minute the store clock reaches when only the handlers and the sweeper run
MaxTime == 12
\* last minute the clock reaches when requests pass through the rate limiter
MaxGateTime == 2
\* number of requests the clients send in all
MaxCalls == 12

\* ------------------------------------------------------------------- inputs
Codes == {"ABC1", "DEF2"}
Blobs == {"blob1", "blob2"}
\* expires_minutes of a request body; 0 is the field left out
Minutes == {0, 5}
\* r.RemoteAddr is "ip:port": two connections of one client host
Addrs == {[ip |-> "10.0.0.1", port |-> 5001], [ip |-> "10.0.0.1", port |-> 5002]}
\* outcome of a database call
DbOutcomes == {"ok", "err"}
\* outcome of the sweeper's two database calls (Exec, RowsAffected)
SweepOutcomes == {"ok", "exec_err", "rows_err"}
\* request goroutines that may be in flight together
Reqs == {"r1", "r2"}
\* differences between the process's clock and the store's, in minutes
Skews == {-1, 0, 1}

VARIABLES
    now,            \* the store's clock, in minutes: datetime('now')
    skew,           \* minutes by which the process's time.Now() is ahead of it
    sweeper,        \* the cleanupExpired goroutine: in its ticker loop or returned
    shares,         \* rows of table shares
    rateLimiters,   \* map RemoteAddr -> *rate.Limiter (0: no entry)
    limiters,       \* the rate.Limiter objects ever allocated, by address
    req,            \* per request goroutine: position in the middleware/handler
    resp,           \* the response written for the request served at this instant
    swept,          \* what the sweeper's last tick at this instant did
    hist,           \* history: per RemoteAddr, Allow calls made and admitted, time of the first
    lastPut,        \* history: per code, the data of the last completed INSERT OR REPLACE
    claim           \* history: per client, progress of check-then-store on ClaimCode

vars == <<now, skew, sweeper, shares, rateLimiters, limiters, req, resp, swept, hist, lastPut, claim>>

\* time.Now() when the store's clock reads t
ProcessClock(t) == t + skew

\* --------------------------------------------------------------- the table
Row(c, d, e) == [code |-> c, data |-> d, expires_at |-> e]

\* SELECT EXISTS(SELECT 1 FROM shares WHERE code = ?)
ExistsCode(tbl, c) == \E row \in tbl : row.code = c

\* INSERT OR REPLACE INTO shares (code, data, expires_at) VALUES (?, ?, ?)
\* code is the PRIMARY KEY: the conflicting row is deleted, then the new one inserted
\* a plain INSERT into a table that has no key on code
InsertNoReplace(tbl, c, d, e) == tbl \cup {Row(c, d, e)}

InsertOrReplace(tbl, c, d, e) == {row \in tbl : row.code # c} \cup {Row(c, d, e)}

\* the SELECT of /receive without its condition on expires_at
SelectAnyAge(tbl, c, t) == {row \in tbl : row.code = c}

SelectLiveBoundary(tbl, c, t) == {row \in tbl : row.code = c /\ row.expires_at >= t}

\* SELECT ... FROM shares WHERE code = ? AND expires_at > datetime('now')
SelectLive(tbl, c, t) == {row \in tbl : row.code = c /\ row.expires_at > t}

\* DELETE FROM shares WHERE expires_at < datetime('now')
\* a DELETE that removes one expired row per statement
DeleteExpiredOne(tbl, t) ==
    LET expired == {row \in tbl : row.expires_at < t} IN
    IF expired = {} THEN tbl ELSE tbl \ {CHOOSE row \in expired : TRUE}

DeleteExpired(tbl, t) == {row \in tbl : ~(row.expires_at < t)}

\* ------------------------------------------------------------- responses
Response(op, c, m, st, d, e) ==
    [op |-> op, code |-> c, ttl |-> m, status |-> st, data |-> d, expires_at |-> e]

NoResp == Response("none", "", 0, 0, "", 0)

Body(c, d, m) == [json |-> TRUE, code |-> c, data |-> d, expires_minutes |-> m]

\* a body that is not JSON, one without code, one without data
BadBodies ==
    { [json |-> FALSE, code |-> "", data |-> "", expires_minutes |-> 0],
      Body("", "blob1", 0), Body("ABC1", "", 0) }

ShareBodies == {Body(c, d, m) : c \in Codes, d \in Blobs, m \in Minutes} \cup BadBodies

\* ---------------------------------------------------------------- handlers
\* Each handler is a function of the table, the clock and the request; it
\* yields the table it leaves and the response it writes.

checkCodeHandler(tbl, c, db) ==
    [shares |-> tbl,
     resp |-> IF db = "err"
              THEN Response("check", c, 0, StatusInternalServerError, "", 0)
              ELSE IF ExistsCode(tbl, c)
                   THEN Response("check", c, 0, StatusConflict, "", 0)
                   ELSE Response("check", c, 0, StatusNotFound, "", 0)]

shareHandler(tbl, t, body, db) ==
    IF ~body.json \/ body.code = "" \/ body.data = ""
    THEN [shares |-> tbl,
          resp |-> Response("share", body.code, body.expires_minutes,
                            StatusBadRequest, "", 0)]
    ELSE LET expiresAt == t + expiresMinutes IN
         IF db = "err"
         THEN [shares |-> tbl,
               resp |-> Response("share", body.code, body.expires_minutes,
                                 StatusInternalServerError, "", 0)]
         ELSE [shares |-> InsertOrReplace(tbl, body.code, body.data, expiresAt),
               resp |-> Response("share", body.code, body.expires_minutes,
                                 StatusCreated, body.data, expiresAt)]

\* a /receive that deletes the share it hands out
receiveHandlerOnce(tbl, t, c, db) ==
    LET rows == SelectLive(tbl, c, t) IN
    [shares |-> IF db = "err" THEN tbl ELSE tbl \ rows,
     resp |-> IF db = "err"
              THEN Response("receive", c, 0, StatusInternalServerError, "", 0)
              ELSE IF rows = {}
                   THEN Response("receive", c, 0, StatusNotFound, "", 0)
                   ELSE Response("receive", c, 0, StatusOK,
                                 (CHOOSE row \in rows : TRUE).data, 0)]

receiveHandler(tbl, t, c, db) ==
    LET rows == SelectLive(tbl, c, t) IN
    [shares |-> tbl,
     resp |-> IF db = "err"
              THEN Response("receive", c, 0, StatusInternalServerError, "", 0)
              ELSE IF rows = {}
                   THEN Response("receive", c, 0, StatusNotFound, "", 0)
                   ELSE Response("receive", c, 0, StatusOK,
                                 (CHOOSE row \in rows : TRUE).data, 0)]

healthHandler(tbl) ==
    [shares |-> tbl, resp |-> Response("health", "", 0, StatusOK, "", 0)]

\* one iteration of the ticker loop of cleanupExpired
NoSweep == [outcome |-> "none", count |-> 0]

\* a sweep that runs on the first tick and is not repeated
cleanupExpiredOnce(tbl, t, db) ==
    IF db = "exec_err"
    THEN [shares |-> tbl, swept |-> [outcome |-> "exec_err", count |-> 0],
          sweeper |-> "returned"]
    ELSE LET left == DeleteExpired(tbl, t) IN
         IF db = "rows_err"
         THEN [shares |-> left, swept |-> [outcome |-> "rows_err", count |-> 0],
               sweeper |-> "returned"]
         ELSE [shares |-> left,
               swept |-> [outcome |-> "ok", count |-> Cardinality(tbl \ left)],
               sweeper |-> "returned"]

\* the loop with return in place of continue in its two error branches
cleanupExpiredReturn(tbl, t, db) ==
    IF db = "exec_err"
    THEN [shares |-> tbl, swept |-> [outcome |-> "exec_err", count |-> 0],
          sweeper |-> "returned"]
    ELSE LET left == DeleteExpired(tbl, t) IN
         IF db = "rows_err"
         THEN [shares |-> left, swept |-> [outcome |-> "rows_err", count |-> 0],
               sweeper |-> "returned"]
         ELSE [shares |-> left,
               swept |-> [outcome |-> "ok", count |-> Cardinality(tbl \ left)],
               sweeper |-> "ticking"]

cleanupExpired(tbl, t, db) ==
    IF db = "exec_err"
    THEN [shares |-> tbl, swept |-> [outcome |-> "exec_err", count |-> 0],
          sweeper |-> "ticking"]
    ELSE LET left == DeleteExpired(tbl, t) IN
         IF db = "rows_err"
         THEN [shares |-> left, swept |-> [outcome |-> "rows_err", count |-> 0],
               sweeper |-> "ticking"]
         ELSE [shares |-> left,
               swept |-> [outcome |-> "ok", count |-> Cardinality(tbl \ left)],
               sweeper |-> "ticking"]

\* ------------------------------------------------------------ rate limiter
\* rate.NewLimiter: a full bucket, last the zero time
NewLimiter(a) == [tokens |-> Burst, last |-> 0, key |-> a]

\* (*Limiter).advance: tokens the bucket holds at time t
advance(lim, t) ==
    LET last == IF t < lim.last THEN t ELSE lim.last
        tokens == lim.tokens + (t - last) * TokensPerMinute
    IN  IF tokens > Burst THEN Burst ELSE tokens

AllowOffByOne(lim, t) ==
    LET tokens == advance(lim, t) - 1 IN
    IF tokens > 0
    THEN [ok |-> TRUE, lim |-> [lim EXCEPT !.tokens = tokens, !.last = t]]
    ELSE [ok |-> FALSE, lim |-> lim]

\* (*Limiter).Allow at time t: the decision and the limiter it leaves
Allow(lim, t) ==
    LET tokens == advance(lim, t) - 1 IN
    IF tokens >= 0
    THEN [ok |-> TRUE, lim |-> [lim EXCEPT !.tokens = tokens, !.last = t]]
    ELSE [ok |-> FALSE, lim |-> lim]

IdleReq == [pc |-> "idle", addr |-> CHOOSE a \in Addrs : TRUE, limiter |-> 0]

RECURSIVE SumCalls(_)
SumCalls(S) ==
    IF S = {} THEN 0
    ELSE LET a == CHOOSE x \in S : TRUE IN hist[a].calls + SumCalls(S \ {a})

InFlight == Cardinality({r \in Reqs : req[r].pc # "idle"})

\* the values the state holds
TypeOK ==
    /\ now \in Nat
    /\ skew \in Skews
    /\ sweeper \in {"ticking", "returned"}
    /\ \A row \in shares :
          row.code \in Codes /\ row.data \in Blobs /\ row.expires_at \in Nat
    /\ \A a \in Addrs : rateLimiters[a] \in 0..Len(limiters)
    /\ \A i \in DOMAIN limiters :
          /\ limiters[i].tokens \in 0..Burst
          /\ limiters[i].last \in 0..ProcessClock(now)
          /\ limiters[i].key \in Addrs
    /\ \A r \in Reqs :
          /\ req[r].pc \in {"idle", "lookup", "create", "allow", "serve"}
          /\ req[r].addr \in Addrs
          /\ req[r].limiter \in 0..Len(limiters)
    /\ resp.op \in {"none", "health", "check", "share", "receive"}
    /\ swept.outcome \in {"none"} \cup SweepOutcomes
    /\ swept.count \in Nat
    /\ \A a \in Addrs : hist[a].oks \in 0..hist[a].calls /\ hist[a].first \in -1..now
    /\ \A c \in Codes : lastPut[c] \in Blobs \cup {""}
    /\ \A r \in Reqs : claim[r] \in {"none", "available", "stored", "replaced"}

\* -------------------------------------------------------------------- Init
InitAt(s) ==
    /\ now = 0
    /\ skew = s
    /\ sweeper = "ticking"
    /\ shares = {}
    /\ rateLimiters = [a \in Addrs |-> 0]
    /\ limiters = <<>>
    /\ req = [r \in Reqs |-> IdleReq]
    /\ resp = NoResp
    /\ swept = NoSweep
    /\ hist = [a \in Addrs |-> [calls |-> 0, oks |-> 0, first |-> -1]]
    /\ lastPut = [c \in Codes |-> ""]
    /\ claim = [r \in Reqs |-> "none"]

\* the process and the store read the same clock
Init == InitAt(0)

\* what a handler's result does to the table, the response and the history;
\* resp and swept describe only the last thing done at the present instant, so
\* a response replaces the sweeper's record and the other way round
Handled(res) ==
    /\ shares' = res.shares
    /\ resp' = res.resp
    /\ lastPut' = IF res.resp.op = "share" /\ res.resp.status = StatusCreated
                  THEN [lastPut EXCEPT ![res.resp.code] = res.resp.data]
                  ELSE lastPut
    /\ swept' = NoSweep

\* ------------------------------------------- the handlers and the sweeper
CheckCode ==
    /\ \E c \in Codes, db \in DbOutcomes : Handled(checkCodeHandler(shares, c, db))
    /\ UNCHANGED <<now, skew, sweeper, rateLimiters, limiters, req, hist, claim>>

Share ==
    /\ \E body \in ShareBodies, db \in DbOutcomes :
            Handled(shareHandler(shares, ProcessClock(now), body, db))
    /\ UNCHANGED <<now, skew, sweeper, rateLimiters, limiters, req, hist, claim>>

Receive ==
    /\ \E c \in Codes, db \in DbOutcomes : Handled(receiveHandler(shares, now, c, db))
    /\ UNCHANGED <<now, skew, sweeper, rateLimiters, limiters, req, hist, claim>>

Health ==
    /\ Handled(healthHandler(shares))
    /\ UNCHANGED <<now, skew, sweeper, rateLimiters, limiters, req, hist, claim>>

\* a tick of the sweeper's ticker, with the given outcome of its database
\* calls; the goroutine takes ticks for as long as it is in its loop
CleanupWith(db) ==
    /\ sweeper = "ticking"
    /\ LET res == cleanupExpired(shares, now, db) IN
        /\ shares' = res.shares
        /\ swept' = res.swept
        /\ sweeper' = res.sweeper
    /\ resp' = NoResp
    /\ UNCHANGED <<now, skew, rateLimiters, limiters, req, hist, lastPut, claim>>

Cleanup == \E db \in SweepOutcomes : CleanupWith(db)

\* a minute passes
AdvanceTo(cap) ==
    /\ now < cap
    /\ now' = now + 1
    /\ resp' = NoResp
    /\ swept' = NoSweep
    /\ UNCHANGED <<skew, sweeper, shares, rateLimiters, limiters, req, hist, lastPut, claim>>

Advance == AdvanceTo(MaxTime)

NextStore == CheckCode \/ Share \/ Receive \/ Health \/ Cleanup \/ Advance

\* the handlers (as the router calls them once a request is admitted) and the
\* sweeper on the table, over the minutes in which shares expire
SpecStore == Init /\ [][NextStore]_vars

\* The ticker of cleanupExpired fires every 30 seconds for as long as the
\* process runs, and the database does not fail on every tick: a tick whose
\* DELETE and row count both succeed is taken whenever it stays possible.
SpecLive == Init /\ [][NextStore]_vars /\ WF_vars(CleanupWith("ok"))

\* the same, with the process's clock off the store's by a fixed difference
InitSkew == \E s \in Skews : InitAt(s)

SpecSkew == InitSkew /\ [][NextStore]_vars

\* ------------------------------------------- a request through the middleware
\* getRateLimiter(ip) run without interruption: the map and the limiters it
\* leaves, and the limiter it returns
\* a map that keeps the newest identity only
getRateLimiterEvicting(reg, heap, a) ==
    IF reg[a] # 0
    THEN [reg |-> reg, heap |-> heap, limiter |-> reg[a]]
    ELSE LET h == Append(heap, NewLimiter(a)) IN
         [reg |-> [b \in Addrs |-> IF b = a THEN Len(h) ELSE 0],
          heap |-> h, limiter |-> Len(h)]

getRateLimiter(reg, heap, a) ==
    IF reg[a] # 0
    THEN [reg |-> reg, heap |-> heap, limiter |-> reg[a]]
    ELSE LET h == Append(heap, NewLimiter(a)) IN
         [reg |-> [reg EXCEPT ![a] = Len(h)], heap |-> h, limiter |-> Len(h)]

\* a request: a route, its {code} or body, and what the database call will do
Rq(op, body, db) == [op |-> op, body |-> body, db |-> db]

\* the routes registered on the mux router
Serve(tbl, t, rq) ==
    CASE rq.op = "health"  -> healthHandler(tbl)
      [] rq.op = "check"   -> checkCodeHandler(tbl, rq.body.code, rq.db)
      [] rq.op = "share"   -> shareHandler(tbl, ProcessClock(t), rq.body, rq.db)
      [] rq.op = "receive" -> receiveHandler(tbl, t, rq.body.code, rq.db)

\* http.Error(w, "Rate limit exceeded", http.StatusTooManyRequests)
RateLimited(rq) ==
    Response(rq.op, rq.body.code, rq.body.expires_minutes, StatusTooManyRequests, "", 0)

Counted(a, ok) ==
    [hist EXCEPT ![a] = [calls |-> @.calls + 1,
                         oks |-> @.oks + (IF ok THEN 1 ELSE 0),
                         first |-> IF @.calls = 0 THEN now ELSE @.first]]

rateLimitMiddlewareNoReturn(a, rq) ==
    LET g == getRateLimiter(rateLimiters, limiters, a)
        al == Allow(g.heap[g.limiter], ProcessClock(now))
    IN  /\ rateLimiters' = g.reg
        /\ limiters' = [g.heap EXCEPT ![g.limiter] = al.lim]
        /\ hist' = Counted(a, al.ok)
        /\ IF al.ok
           THEN Handled(Serve(shares, now, rq))
           ELSE Handled([shares |-> Serve(shares, now, rq).shares,
                         resp |-> RateLimited(rq)])

\* the handler func of rateLimitMiddleware, from r.RemoteAddr to the response
rateLimitMiddleware(a, rq) ==
    LET g == getRateLimiter(rateLimiters, limiters, a)
        al == Allow(g.heap[g.limiter], ProcessClock(now))
    IN  /\ rateLimiters' = g.reg
        /\ limiters' = [g.heap EXCEPT ![g.limiter] = al.lim]
        /\ hist' = Counted(a, al.ok)
        /\ IF al.ok
           THEN Handled(Serve(shares, now, rq))
           ELSE Handled([shares |-> shares, resp |-> RateLimited(rq)])

\* the requests sent through the middleware
GateRequests ==
    { Rq("health", Body("", "", 0), "ok"),
      Rq("check", Body("ABC1", "", 0), "ok"),
      Rq("share", Body("ABC1", "blob1", 0), "ok"),
      Rq("receive", Body("ABC1", "", 0), "ok") }

Request ==
    /\ SumCalls(Addrs) < MaxCalls
    /\ \E a \in Addrs, rq \in GateRequests : rateLimitMiddleware(a, rq)
    /\ UNCHANGED <<now, skew, sweeper, req, claim>>

AdvanceGate == AdvanceTo(MaxGateTime)

Next == Request \/ Cleanup \/ AdvanceGate

\* whole requests, one after another, through the rate limiter, with the
\* sweeper, over the minutes in which buckets drain and refill
Spec == Init /\ [][Next]_vars

\* ------------------------------------- request goroutines, step by step
\* Each goroutine runs the middleware and then a handler.  A step is one
\* section that runs under a lock or as one SQL statement: the read of the map
\* under RLock, the creation under Lock, Allow (under the limiter's own mutex),
\* the handler's single statement.  The clock stands still meanwhile.

\* the code two clients try to claim, each with its own data
ClaimCode == "ABC1"
DataOf(r) == IF r = "r1" THEN "blob1" ELSE "blob2"

ClientRequests(r) ==
    { Rq("health", Body("", "", 0), "ok"),
      Rq("check", Body(ClaimCode, "", 0), "ok"),
      Rq("share", Body(ClaimCode, DataOf(r), 0), "ok"),
      Rq("receive", Body(ClaimCode, "", 0), "ok") }

\* the client's progress once its request was answered: told Available by
\* /check ("available"), then its Store succeeded ("stored"), then its live
\* share was replaced by the Store of another client told Available ("replaced")
Claimed(r, res) ==
    LET rs == res.resp
        mine(q) == \E row \in shares : /\ row.code = ClaimCode
                                       /\ row.data = DataOf(q)
                                       /\ row.expires_at > now
    IN
    IF rs.op = "check"
    THEN [claim EXCEPT ![r] =
            IF rs.status = StatusNotFound /\ @ = "none" THEN "available"
            ELSE IF rs.status = StatusConflict /\ @ = "available" THEN "none"
            ELSE @]
    ELSE IF rs.op = "share" /\ rs.status = StatusCreated
    THEN [q \in Reqs |->
            IF q = r
            THEN (IF claim[q] = "available" THEN "stored" ELSE claim[q])
            ELSE IF claim[q] = "stored" /\ mine(q) /\ claim[r] = "available"
                 THEN "replaced"
                 ELSE claim[q]]
    ELSE claim

\* the requests in flight together come over one connection
ConnAddrs == {a \in Addrs : a.port = 5001}

\* a request arrives on a connection
Arrive(r) ==
    /\ req[r].pc = "idle"
    /\ SumCalls(Addrs) + InFlight < MaxCalls
    /\ \E a \in ConnAddrs :
          req' = [req EXCEPT ![r] = [pc |-> "lookup", addr |-> a, limiter |-> 0]]
    /\ UNCHANGED <<now, skew, sweeper, shares, rateLimiters, limiters, resp, swept, hist, lastPut, claim>>

\* getRateLimiter: RLock; limiter, exists := rateLimiters[ip]; RUnlock
Lookup(r) ==
    /\ req[r].pc = "lookup"
    /\ LET id == rateLimiters[req[r].addr] IN
       req' = [req EXCEPT ![r].pc = IF id # 0 THEN "allow" ELSE "create",
                          ![r].limiter = id]
    /\ UNCHANGED <<now, skew, sweeper, shares, rateLimiters, limiters, resp, swept, hist, lastPut, claim>>

\* getRateLimiter, if !exists: Lock; NewLimiter; rateLimiters[ip] = limiter; Unlock
Create(r) ==
    /\ req[r].pc = "create"
    /\ LET h == Append(limiters, NewLimiter(req[r].addr)) IN
       /\ limiters' = h
       /\ rateLimiters' = [rateLimiters EXCEPT ![req[r].addr] = Len(h)]
       /\ req' = [req EXCEPT ![r].pc = "allow", ![r].limiter = Len(h)]
    /\ UNCHANGED <<now, skew, sweeper, shares, resp, swept, hist, lastPut, claim>>

\* rateLimitMiddleware: if !limiter.Allow() { http.Error(429); return }
AllowStep(r) ==
    /\ req[r].pc = "allow"
    /\ LET al == Allow(limiters[req[r].limiter], ProcessClock(now)) IN
       /\ limiters' = [limiters EXCEPT ![req[r].limiter] = al.lim]
       /\ hist' = Counted(req[r].addr, al.ok)
       /\ IF al.ok
          THEN /\ req' = [req EXCEPT ![r].pc = "serve"]
               /\ UNCHANGED <<resp, swept>>
          ELSE /\ req' = [req EXCEPT ![r] = IdleReq]
               /\ \E rq \in ClientRequests(r) : resp' = RateLimited(rq)
               /\ swept' = NoSweep
    /\ UNCHANGED <<now, skew, sweeper, shares, rateLimiters, lastPut, claim>>

\* rateLimitMiddleware: next.ServeHTTP(w, r)
ServeStep(r) ==
    /\ req[r].pc = "serve"
    /\ \E rq \in ClientRequests(r) :
          LET res == Serve(shares, now, rq) IN
          /\ Handled(res)
          /\ claim' = Claimed(r, res)
    /\ req' = [req EXCEPT ![r] = IdleReq]
    /\ UNCHANGED <<now, skew, sweeper, rateLimiters, limiters, hist>>

NextConc ==
    \E r \in Reqs : Arrive(r) \/ Lookup(r) \/ Create(r) \/ AllowStep(r) \/ ServeStep(r)

\* concurrent requests, interleaved step by step
SpecConc == Init /\ [][NextConc]_vars

\* ------------------------------------------------------------------ claims
\* the rows stored under a code
RowsOf(tbl, c) == {row \in tbl : row.code = c}

\* the time-to-live a Store request asks for: expires_minutes, or ten minutes
\* when the body names none
RequestedMinutes(m) == IF m = 0 THEN 10 ELSE m

\* C1 (time gating): whenever a /receive or /check request has just been
\* answered without a database error, /receive returned the stored data if the
\* code has a row whose expiry is still ahead of the clock (now < E) and 404
\* otherwise, also at now = E and also while the expired row is still in the
\* table; /check answered 409 exactly when a row with that code is in the
\* table, expired or not.
C1_TimeGating ==
    /\ (resp.op = "receive" /\ resp.status # StatusInternalServerError) =>
          IF \E row \in RowsOf(shares, resp.code) : now < row.expires_at
          THEN /\ resp.status = StatusOK
               /\ \E row \in RowsOf(shares, resp.code) : resp.data = row.data
          ELSE resp.status = StatusNotFound
    /\ (resp.op = "check" /\ resp.status # StatusInternalServerError) =>
          (resp.status = StatusConflict <=> RowsOf(shares, resp.code) # {})
    /\ (resp.op = "check" /\ resp.status # StatusInternalServerError) =>
          resp.status \in {StatusConflict, StatusNotFound}

\* C1 witness: /receive has just answered 404 for a code whose row is still in
\* the table at the very minute it expires.
C1_Witness ==
    /\ resp.op = "receive"
    /\ resp.status = StatusNotFound
    /\ \E row \in RowsOf(shares, resp.code) : row.expires_at = now

\* C2 (last write wins): a Store that completes on a code that already has a
\* row leaves exactly one row for the code, holding the second request's data
\* and the expiry of the second request (its time plus its time-to-live); and
\* every /receive that finds the share live returns the data of the last Store.
C2_LastWriteWins ==
    [][ /\ (/\ resp'.op = "share"
            /\ resp'.status = StatusCreated
            /\ ExistsCode(shares, resp'.code))
           => RowsOf(shares', resp'.code) =
                {Row(resp'.code, resp'.data, now + RequestedMinutes(resp'.ttl))}
        /\ (resp'.op = "receive" /\ resp'.status = StatusOK)
           => resp'.data = lastPut'[resp'.code] ]_vars

\* C3 (sweep correctness): right after a sweep at time now, no row with
\* expires_at <= now is left, every row with expires_at > now is still there
\* unchanged, and the count is the number of rows the sweep removed.
C3_SweepCorrectness ==
    [][ swept'.outcome = "ok" =>
          /\ \A row \in shares' : row.expires_at > now
          /\ \A row \in shares : row.expires_at > now => row \in shares'
          /\ shares' \subseteq shares
          /\ swept'.count = Cardinality(shares \ shares') ]_vars

\* C7 (expiry honours the requested TTL): a Store that has just succeeded
\* wrote, and returned, the expiry now + expires_minutes, or now + 10 when the
\* request named no expires_minutes.
C7_RequestedTTL ==
    (resp.op = "share" /\ resp.status = StatusCreated) =>
        /\ resp.expires_at = now + RequestedMinutes(resp.ttl)
        /\ \E row \in RowsOf(shares, resp.code) :
                row.expires_at = now + RequestedMinutes(resp.ttl)

\* ---------------------------------------------------- claims on admission
Min(x, y) == IF x < y THEN x ELSE y

RECURSIVE SumOks(_)
SumOks(S) ==
    IF S = {} THEN 0
    ELSE LET a == CHOOSE x \in S : TRUE IN hist[a].oks + SumOks(S \ {a})

\* the limiter the map holds for an address
LimiterOf(a) == limiters[rateLimiters[a]]

\* C4 (admission): while no time has passed since an identity was first seen,
\* exactly its first Burst = 10 Allow calls have been answered true and every
\* further one false; and an Allow call made a full minute or more after the
\* limiter last admitted a call (so after a minute without calls) is answered
\* true.
C4_Admission ==
    [][ /\ \A a \in Addrs :
              hist'[a].first = now' => hist'[a].oks = Min(hist'[a].calls, Burst)
        /\ \A a \in Addrs :
              (/\ rateLimiters[a] # 0
               /\ hist'[a].calls = hist[a].calls + 1
               /\ now - LimiterOf(a).last >= 1)
              => hist'[a].oks = hist[a].oks + 1 ]_vars

\* C4 witness: one identity made Burst + 2 calls: ten admitted and the next
\* one rejected in the minute it was first seen, and the call after the refill
\* minute admitted.
C4_Witness ==
    \E a \in Addrs :
        /\ now = hist[a].first + 1
        /\ hist[a].calls = Burst + 2
        /\ hist[a].oks = Burst + 1
        /\ LimiterOf(a).last = now
        /\ LimiterOf(a).tokens = 0
        /\ resp.op # "none"
        /\ resp.status # StatusTooManyRequests

\* C6 (admission gate): a step in which a handler answers, or in which the
\* table changes other than by the sweeper, contains an Allow call that
\* returned true; a step that answers 429 (an Allow call that returned false)
\* leaves the table as it was.
C6_AdmissionGate ==
    [][ /\ ((resp'.op # "none" /\ resp'.status # StatusTooManyRequests)
            \/ (shares' # shares /\ swept'.outcome = "none"))
           => \E a \in Addrs : /\ hist'[a].calls = hist[a].calls + 1
                               /\ hist'[a].oks = hist[a].oks + 1
        /\ (\E a \in Addrs : /\ hist'[a].calls = hist[a].calls + 1
                             /\ hist'[a].oks = hist[a].oks)
           => /\ resp'.status = StatusTooManyRequests
              /\ shares' = shares ]_vars

\* C6 witness: a Store request has just been answered 429, by a limiter that
\* had admitted a Store before.
C6_Witness ==
    /\ resp.op = "share"
    /\ resp.status = StatusTooManyRequests
    /\ shares # {}
    /\ \E a \in Addrs : hist[a].calls > hist[a].oks

\* C8 (refill rate): a limiter never holds more than 10 tokens, and one that
\* was drained to 0 tokens holds 10 tokens again once a minute has passed
\* since its last admitted call.
C8_RefillTenPerMinute ==
    \A i \in DOMAIN limiters :
        /\ limiters[i].tokens <= 10
        /\ advance(limiters[i], now) <= 10
        /\ (limiters[i].tokens = 0 /\ now - limiters[i].last >= 1)
              => advance(limiters[i], now) = 10

\* C9 (per IP address): the addresses of one IP address share one limiter, so
\* that while no time passes one IP address is admitted at most Burst times.
C9_PerIPAddress ==
    /\ \A a, b \in Addrs :
          (a.ip = b.ip /\ rateLimiters[a] # 0 /\ rateLimiters[b] # 0)
              => rateLimiters[a] = rateLimiters[b]
    /\ \A a \in Addrs :
          now = 0 => SumOks({b \in Addrs : b.ip = a.ip}) <= Burst

\* ----------------------------------------------------- claims on interleavings
\* C5 (a limiter is created once): at most one limiter is ever created for an
\* identity, and every request that holds a limiter holds the one the map
\* keeps for its identity.
C5_LimiterCreatedOnce ==
    /\ \A i, j \in DOMAIN limiters : limiters[i].key = limiters[j].key => i = j
    /\ \A r \in Reqs :
          req[r].limiter # 0 => req[r].limiter = rateLimiters[req[r].addr]

\* C10 (claiming a code is race-free): it never happens that two clients were
\* both told Available for the code, both Stores succeeded, and the Store of
\* one replaced the still live share of the other.
C10_ClaimRaceFree ==
    ~ \E p, q \in Reqs : p # q /\ claim[p] = "replaced" /\ claim[q] = "stored"

\* ------------------------------------------------- C11: one row per code
\* C11: in every reachable state, after any interleaving of share, receive,
\* check and the sweeper, the table holds at most one row per code, and so at
\* most one row of that code that receive would return.
C11_Uniqueness ==
    \A c \in Codes :
        /\ Cardinality(RowsOf(shares, c)) <= 1
        /\ Cardinality(SelectLive(shares, c, now)) <= 1

\* a share has just been stored under a code while an older, expired row of
\* the other code is still in the table
C11_Witness ==
    /\ resp.op = "share" /\ resp.status = StatusCreated
    /\ \E row \in shares : row.code = resp.code /\ row.expires_at > now
    /\ \E row \in shares : row.code # resp.code /\ row.expires_at < now

\* ------------------------------------------- C12: whose clock decides expiry
\* C12: every liveness decision is taken on the store's clock: a share accepted
\* when the store's clock reads T is stored with expiry T + ttl on that clock,
\* the instant receive and the sweeper compare with datetime('now'), whatever
\* the difference between the process's clock and the store's.  ttl is the
\* lifetime the handler applies.
C12_StoreClockExpiry ==
    (resp.op = "share" /\ resp.status = StatusCreated)
        => \A row \in RowsOf(shares, resp.code) :
               row.expires_at = now + expiresMinutes

\* --------------------------------------- C13: the sweeper and storage errors
\* C13: when a tick's DELETE, or the row count asked for after it, fails, the
\* sweeper does not terminate and the table is the same after the tick as
\* before it; the goroutine is never in a returned state, so the next tick
\* sweeps again.
C13_SweeperSurvivesErrors ==
    [][/\ sweeper' = "ticking"
       /\ swept'.outcome \in {"exec_err", "rows_err"} => shares' = shares]_vars

\* C13 (amended): the sweeper never terminates; a tick whose DELETE fails
\* leaves the table as it was; a tick whose row count fails has already
\* deleted the rows with expires_at < now, and only those.
C13_SweeperSurvivesErrorsAmended ==
    [][/\ sweeper' = "ticking"
       /\ swept'.outcome = "exec_err" => shares' = shares
       /\ swept'.outcome = "rows_err"
            => shares' = {row \in shares : row.expires_at >= now}]_vars

\* a tick has just failed in its DELETE and the expired row it was to delete
\* is still in the table, the sweeper still in its loop
C13_Witness ==
    /\ swept.outcome = "exec_err"
    /\ sweeper = "ticking"
    /\ \E row \in shares : row.expires_at < now

PutRequests == {Rq("share", b, db) : b \in ShareBodies, db \in DbOutcomes}
GetRequests == {Rq("receive", Body(c, "", 0), db) : c \in Codes, db \in DbOutcomes}
ExistsRequests == {Rq("check", Body(c, "", 0), db) : c \in Codes, db \in DbOutcomes}

\* the request served at instant t and then a sweep at t; the sweep first
OpThenPurge(tbl, t, rq) ==
    LET served == Serve(tbl, t, rq) IN
    [shares |-> cleanupExpired(served.shares, t, "ok").shares, resp |-> served.resp]

PurgeThenOp(tbl, t, rq) == Serve(cleanupExpired(tbl, t, "ok").shares, t, rq)

\* C15: for the table of any reachable state, at a fixed instant, and any one
\* request among share, receive and check, sweeping and then serving the
\* request leaves the same table and gives the same response as serving the
\* request and then sweeping.
C15_SweepCommutes ==
    \A rq \in PutRequests \cup GetRequests \cup ExistsRequests :
        OpThenPurge(shares, now, rq) = PurgeThenOp(shares, now, rq)

\* C15 (amended): the two orders leave the same table for share, receive and
\* check, and give the same response for share and receive; the response of
\* check is left out, since check reports a row that is expired and not yet
\* swept.
C15_SweepCommutesAmended ==
    /\ \A rq \in PutRequests \cup GetRequests :
          OpThenPurge(shares, now, rq) = PurgeThenOp(shares, now, rq)
    /\ \A rq \in ExistsRequests :
          OpThenPurge(shares, now, rq).shares = PurgeThenOp(shares, now, rq).shares

\* a receive has just been refused for a code whose row is expired and still
\* in the table, where a sweep would delete it
C15_Witness ==
    /\ resp.op = "receive" /\ resp.status = StatusNotFound
    /\ \E row \in RowsOf(shares, resp.code) : row.expires_at < now

\* ------------------------------------------- C16: what may change the table
\* C16: receive, check and health leave every row as it was; a successful
\* receive answers the data of the last share stored under the code, however
\* often it is asked; the table changes only in a share, and then only in the
\* rows of that share's code, or in a sweep, and then only by losing rows with
\* expires_at < now; no step changes a row it does not replace or delete.
C16_ReadsDoNotMutate ==
    [][/\ resp'.op \in {"receive", "check", "health"} => shares' = shares
       /\ (resp'.op = "receive" /\ resp'.status = StatusOK)
            => resp'.data = lastPut'[resp'.code]
       /\ shares' # shares
            => \/ /\ resp'.op = "share" /\ resp'.status = StatusCreated
                  /\ \A row \in shares \cup shares' :
                        row.code # resp'.code => (row \in shares <=> row \in shares')
               \/ /\ swept'.outcome \in {"ok", "rows_err"}
                  /\ shares' \subseteq shares
                  /\ \A row \in shares \ shares' : row.expires_at < now]_vars

\* a receive has just answered a share, in a later minute than the share was
\* stored, and the row is in the table as it was stored
C16_Witness ==
    /\ resp.op = "receive" /\ resp.status = StatusOK
    /\ \E row \in RowsOf(shares, resp.code) :
          /\ row.data = resp.data
          /\ now < row.expires_at /\ row.expires_at < now + expiresMinutes

\* --------------------------------- C17: admissions among concurrent requests
\* C17: for any interleaving of concurrent requests from one identity not
\* seen before, with no time passing between them, at most Burst requests
\* are admitted and the others are refused.
C17_ConcurrentAdmission ==
    \A a \in Addrs : hist[a].oks <= Burst

\* ------------------------------------- C18: expired rows are swept in the end
\* C18: with the sweeper's ticks scheduled fairly and its DELETE not failing
\* for ever, every row whose expires_at has passed is in the end out of the
\* table, deleted by a sweep unless a later share replaced it: again and again
\* the table holds no row with expires_at < now.
C18_ExpiredEventuallyRemoved ==
    []<>(\A row \in shares : ~(row.expires_at < now))

\* a tick has just deleted expired rows and counted them
C18_Witness ==
    /\ swept.outcome = "ok" /\ swept.count >= 1
    /\ \A row \in shares : ~(row.expires_at < now)

\* ------------------------------------------ C19: the map of limiters grows
\* C19: the identities that have an entry in rateLimiters only grow in number:
\* no step, be it an admitted request, a refused one, a sweeper tick or the
\* passing of time, removes an entry, and an entry appears only in the first
\* request from an identity that had none.
C19_NoEviction ==
    [][\A a \in Addrs :
          /\ rateLimiters[a] # 0 => rateLimiters'[a] # 0
          /\ (rateLimiters[a] = 0 /\ rateLimiters'[a] # 0)
               => (hist[a].calls = 0 /\ hist'[a].calls = 1)]_vars

\* both identities have their entry after requests admitted and refused, a
\* later minute and a sweeper tick
C19_Witness ==
    /\ \A a \in Addrs : rateLimiters[a] # 0
    /\ \E a \in Addrs : hist[a].calls > hist[a].oks
    /\ now >= 1
    /\ swept.outcome = "ok"

====
